---- MODULE Spec2Model ----
(***************************************************************************)
(* A model of SLR_rem_dups.ipynb: three bibliographic exports (Web of      *)
(* Science, Scopus, ProQuest) are read, adapted to one schema, merged and  *)
(* deduplicated on (Authors, Title, Year), and a summary is printed.       *)
(*                                                                         *)
(* Text cells are sequences of one-character strings.  A numeric cell is   *)
(* <<n>>, and <<>> when the value is missing (pandas' NaN).  A DataFrame   *)
(* is a record of its column labels, its index labels and its rows.        *)
(***************************************************************************)
EXTENDS Integers, Sequences, FiniteSets, TLC

VARIABLES
    pc,               \* position of the run
    FILE_PATH_WOS,    \* the three configured paths
    FILE_PATH_SD,
    FILE_PATH_PQ,
    disk,             \* path -> what the file at that path holds
    df_wos,           \* locals of main (None before they are bound)
    df_scopus,
    df_proquest,
    df_wos_adj,
    df_scopus_adj,
    df_proquest_adj,
    df_merged,
    df_uniques,
    df_uniques_size,
    df_size,
    stdout,           \* lines printed so far
    error             \* the exception that ended the run, or NoError

vars == << pc, FILE_PATH_WOS, FILE_PATH_SD, FILE_PATH_PQ, disk,
           df_wos, df_scopus, df_proquest,
           df_wos_adj, df_scopus_adj, df_proquest_adj,
           df_merged, df_uniques, df_uniques_size, df_size, stdout, error >>

-----------------------------------------------------------------------------
(* Bounds of the model. *)

MaxLen == 4          \* longest raw author string given to an adapter
MaxRows == 3         \* most rows of a merged table given to rem_duplicates
MaxSourceRows == 1   \* most rows of one source's file in a run of main
MaxPathLen == 5      \* longest path given to read_file

-----------------------------------------------------------------------------
(* Values. *)

None == [none |-> TRUE]
NoError == [type |-> "none", names |-> {}]
NaN == <<>>
Num(n) == <<n>>
IsNaN(v) == v = NaN

Str(S, n) == UNION {[1..k -> S] : k \in 0..n}

Range(s) == {s[i] : i \in 1..Len(s)}

RECURSIVE Flatten(_)
Flatten(ss) == IF ss = <<>> THEN <<>> ELSE Head(ss) \o Flatten(Tail(ss))

-----------------------------------------------------------------------------
(* Python str methods and the regular expression of adjust_scopus. *)

\* str.isspace() per character, over the characters of the model
Whitespace == {" ", "\n", "\t"}

\* str.isupper() per character, over the characters of the model
Uppercase == {"A", "D", "J", "S", "X", "É"}

\* str.lower() on one character
LowerChar(c) ==
    CASE c = "A" -> "a"
      [] c = "D" -> "d"
      [] c = "J" -> "j"
      [] c = "S" -> "s"
      [] c = "X" -> "x"
      [] c = "É" -> "é"
      [] OTHER -> c

\* Series.str.lower()
Lower(s) == [i \in 1..Len(s) |-> LowerChar(s[i])]

\* RemoveSpaces replacing the first occurrence only
RemoveFirstSpace(s) ==
    IF \E i \in 1..Len(s) : s[i] = " "
    THEN LET k == CHOOSE i \in 1..Len(s) :
                     s[i] = " " /\ \A j \in 1..(i-1) : s[j] # " "
         IN  SubSeq(s, 1, k - 1) \o SubSeq(s, k + 1, Len(s))
    ELSE s

\* Series.str.replace(' ', '', regex=False): every U+0020 is removed
RECURSIVE RemoveSpaces(_)
RemoveSpaces(s) ==
    IF s = <<>> THEN <<>>
    ELSE IF Head(s) = " " THEN RemoveSpaces(Tail(s))
    ELSE <<Head(s)>> \o RemoveSpaces(Tail(s))

\* The end of the match of \(.*?\) that starts at s[1] = "(": the first ")"
\* after it, with no newline in between ('.' does not match a newline); 0 if
\* the pattern does not match at s[1].
MatchEnd(s) ==
    LET ends == {j \in 2..Len(s) :
                    /\ s[j] = ")"
                    /\ \A k \in 2..(j-1) : s[k] # "\n"}
    IN  IF s # <<>> /\ s[1] = "(" /\ ends # {}
        THEN CHOOSE j \in ends : \A k \in ends : j <= k
        ELSE 0

\* Series.str.replace(r'\(.*?\)', '', regex=True): re.sub, leftmost
\* non-overlapping matches, scanning left to right
RECURSIVE ReSubParens(_)
ReSubParens(s) ==
    IF s = <<>> THEN <<>>
    ELSE IF MatchEnd(s) > 0 THEN ReSubParens(SubSeq(s, MatchEnd(s) + 1, Len(s)))
    ELSE <<Head(s)>> \o ReSubParens(Tail(s))

RECURSIVE LStrip(_)
LStrip(s) ==
    IF s # <<>> /\ Head(s) \in Whitespace THEN LStrip(Tail(s)) ELSE s

RECURSIVE RStrip(_)
RStrip(s) ==
    IF s # <<>> /\ s[Len(s)] \in Whitespace
    THEN RStrip(SubSeq(s, 1, Len(s) - 1)) ELSE s

\* Series.str.strip()
Strip(s) == RStrip(LStrip(s))

\* The two str methods every adapter uses, on a column
StrRemoveSpaces(series) == [i \in 1..Len(series) |-> RemoveSpaces(series[i])]
StrLower(series) == [i \in 1..Len(series) |-> Lower(series[i])]

-----------------------------------------------------------------------------
(* DataFrames. *)

DataFrame(columns, index, data) ==
    [columns |-> columns, index |-> index, data |-> data]

\* df.shape[0]
NRows(df) == Len(df.data)

\* df[col] = value for a scalar value: an existing column is overwritten where
\* it stands, a new one is appended as the last column
SetColumn(df, col, value) ==
    DataFrame(IF col \in Range(df.columns) THEN df.columns
                                           ELSE Append(df.columns, col),
              df.index,
              [i \in 1..NRows(df) |->
                  [c \in Range(df.columns) \cup {col} |->
                      IF c = col THEN value ELSE df.data[i][c]]])

\* The labels df[[...]] does not find: pandas raises KeyError naming them
MissingColumns(df, cols) == Range(cols) \ Range(df.columns)

\* df[[...]] when every label is found
SelectColumns(df, cols) ==
    DataFrame(cols, df.index,
              [i \in 1..NRows(df) |-> [c \in Range(cols) |-> df.data[i][c]]])

\* df.rename(columns={...}); to[i] is the new label of from[i]
RenameLabel(c, from, to) ==
    IF c \in Range(from)
    THEN to[CHOOSE i \in 1..Len(from) : from[i] = c]
    ELSE c

Rename(df, from, to) ==
    DataFrame([j \in 1..Len(df.columns) |-> RenameLabel(df.columns[j], from, to)],
              df.index,
              [i \in 1..NRows(df) |->
                  [c \in {RenameLabel(d, from, to) : d \in Range(df.columns)} |->
                      df.data[i][CHOOSE d \in Range(df.columns) :
                                    RenameLabel(d, from, to) = c]]])

\* df[col]: the cells of the column, one per row
Column(df, col) == [i \in 1..NRows(df) |-> df.data[i][col]]

\* df[col] = series, for a column the table has
AssignColumn(df, col, series) ==
    DataFrame(df.columns, df.index,
              [i \in 1..NRows(df) |->
                  [c \in Range(df.columns) |->
                      IF c = col THEN series[i] ELSE df.data[i][c]]])

-----------------------------------------------------------------------------
(* The exceptions the run can end with. *)

KeyError(names) == [type |-> "KeyError", names |-> names]
TypeError == [type |-> "TypeError", names |-> {}]
ValueError == [type |-> "ValueError", names |-> {}]

\* What a function call gives back: its return value, or the exception, and
\* the caller's table as the call left it
Returned(df, raw) == [df |-> df, error |-> NoError, raw |-> raw]
Raised(e, raw) == [df |-> None, error |-> e, raw |-> raw]

-----------------------------------------------------------------------------
(* 3 Adjust DataFrame Structure. *)

WOS_COLUMNS == <<"Author Full Names", "Article Title", "Publication Year",
                 "Database", "Times Cited, WoS Core">>
SCOPUS_COLUMNS == <<"Author full names", "Title", "Year", "Source", "Cited by">>
PROQUEST_COLUMNS == <<"Author", "Title", "PubDate", "Source", "Cited by">>

\* The Database labels main counts (never rewritten, so kept as plain strings)
WOS_LABEL == "Web of Science"
SCOPUS_LABEL == "Scopus"
PROQUEST_LABEL == "ProQuest"

\* The three string steps every adapter applies to Authors and Title
NormalizeText(df) ==
    LET spaceless == AssignColumn(df, "Authors", StrRemoveSpaces(Column(df, "Authors")))
        lowered == AssignColumn(spaceless, "Authors", StrLower(Column(spaceless, "Authors")))
    IN  AssignColumn(lowered, "Title", StrLower(Column(lowered, "Title")))

AdjustWos(df) ==
    IF df = None THEN Raised(TypeError, df)
    ELSE LET tagged == SetColumn(df, "Database", WOS_LABEL)
         IN  IF MissingColumns(tagged, WOS_COLUMNS) # {}
             THEN Raised(KeyError(MissingColumns(tagged, WOS_COLUMNS)), tagged)
             ELSE Returned(
                    NormalizeText(
                      Rename(SelectColumns(tagged, WOS_COLUMNS),
                             <<"Author Full Names", "Article Title",
                               "Publication Year", "Times Cited, WoS Core">>,
                             <<"Authors", "Title", "Year", "Citations">>)),
                    tagged)

\* The parentheses step of adjust_scopus, on one cell and on the column
StripParens(s) == Strip(ReSubParens(s))
StrStripParens(series) == [i \in 1..Len(series) |-> StripParens(series[i])]

\* df["Authors"] = df["Authors"].str.replace(r'\(.*?\)', '', regex=True).str.strip()
WithoutParens(df) ==
    AssignColumn(df, "Authors", StrStripParens(Column(df, "Authors")))

\* df.reindex(columns=[...]): a label that is not found becomes a NaN column
Reindexed(df, cols) ==
    DataFrame(cols, df.index,
              [i \in 1..NRows(df) |->
                  [c \in Range(cols) |->
                      IF c \in Range(df.columns) THEN df.data[i][c] ELSE NaN]])

\* AdjustScopus selecting its columns with reindex
AdjustScopusReindexed(df) ==
    IF df = None THEN Raised(TypeError, df)
    ELSE Returned(
           WithoutParens(
             NormalizeText(
               Rename(Reindexed(df, SCOPUS_COLUMNS),
                      <<"Author full names", "Cited by", "Source">>,
                      <<"Authors", "Citations", "Database">>))),
           df)

\* AdjustScopus taking a source that did not load for a source without rows
AdjustScopusLenient(df) ==
    IF df = None
    THEN Returned(DataFrame(<<"Authors", "Title", "Year", "Database", "Citations">>,
                            <<>>, <<>>),
                  df)
    ELSE IF MissingColumns(df, SCOPUS_COLUMNS) # {}
    THEN Raised(KeyError(MissingColumns(df, SCOPUS_COLUMNS)), df)
    ELSE Returned(
           WithoutParens(
             NormalizeText(
               Rename(SelectColumns(df, SCOPUS_COLUMNS),
                      <<"Author full names", "Cited by", "Source">>,
                      <<"Authors", "Citations", "Database">>))),
           df)

AdjustScopus(df) ==
    IF df = None THEN Raised(TypeError, df)
    ELSE IF MissingColumns(df, SCOPUS_COLUMNS) # {}
    THEN Raised(KeyError(MissingColumns(df, SCOPUS_COLUMNS)), df)
    ELSE Returned(
           WithoutParens(
             NormalizeText(
               Rename(SelectColumns(df, SCOPUS_COLUMNS),
                      <<"Author full names", "Cited by", "Source">>,
                      <<"Authors", "Citations", "Database">>))),
           df)

Digit(c) ==
    CASE c = "0" -> 0 [] c = "1" -> 1 [] c = "2" -> 2 [] c = "3" -> 3
      [] c = "4" -> 4 [] c = "5" -> 5 [] c = "6" -> 6 [] c = "7" -> 7
      [] c = "8" -> 8 [] c = "9" -> 9 [] OTHER -> -1

\* pd.to_datetime accepts the cell: a missing value, or a date YYYY-MM-DD
ParsesAsDate(s) ==
    \/ IsNaN(s)
    \/ /\ Len(s) = 10
       /\ s[5] = "-" /\ s[8] = "-"
       /\ \A i \in {1, 2, 3, 4, 6, 7, 9, 10} : Digit(s[i]) >= 0
       /\ 10 * Digit(s[6]) + Digit(s[7]) \in 1..12
       /\ 10 * Digit(s[9]) + Digit(s[10]) \in 1..31

\* pd.to_datetime(...) then .dt.year: the calendar year, NaN for a missing date
DtYear(s) ==
    IF IsNaN(s) THEN NaN
    ELSE Num(1000 * Digit(s[1]) + 100 * Digit(s[2]) + 10 * Digit(s[3]) + Digit(s[4]))

AdjustProquest(df) ==
    IF df = None THEN Raised(TypeError, df)
    ELSE IF MissingColumns(df, PROQUEST_COLUMNS) # {}
    THEN Raised(KeyError(MissingColumns(df, PROQUEST_COLUMNS)), df)
    ELSE LET kept == SelectColumns(df, PROQUEST_COLUMNS)
         IN  IF \E i \in 1..NRows(kept) : ~ParsesAsDate(kept.data[i]["PubDate"])
             THEN Raised(ValueError, df)
             ELSE Returned(
                    NormalizeText(
                      Rename(AssignColumn(kept, "PubDate",
                                          [i \in 1..NRows(kept) |->
                                              DtYear(kept.data[i]["PubDate"])]),
                             <<"Author", "PubDate", "Cited by", "Source">>,
                             <<"Authors", "Year", "Citations", "Database">>)),
                    df)

-----------------------------------------------------------------------------
(* 4 Merge DataFrame to a single DataFrame. *)

UNIFIED_COLUMNS == <<"Authors", "Title", "Year", "Database", "Citations">>

\* pd.concat([...], ignore_index=True) of three tables of the unified columns:
\* the rows of the first, then of the second, then of the third, renumbered
MergeDfs(wos, scopus, proquest) ==
    LET data == wos.data \o scopus.data \o proquest.data
    IN  DataFrame(wos.columns, [i \in 1..Len(data) |-> i - 1], data)

-----------------------------------------------------------------------------
(* 5 Remove Duplicates. *)

\* unidecode() on one character: its ASCII transliteration
UnidecodeChar(c) ==
    CASE c = "é" -> <<"e">>
      [] c = "É" -> <<"E">>
      [] c = "ß" -> <<"s", "s">>
      [] OTHER -> <<c>>

\* unidecode(s)
Unidecode(s) == Flatten([i \in 1..Len(s) |-> UnidecodeChar(s[i])])

\* Code points of the characters of the model, for Python's str comparison
Ord(c) ==
    CASE c = "\t" -> 9 [] c = "\n" -> 10 [] c = " " -> 32
      [] c = "(" -> 40 [] c = ")" -> 41
      [] c = "A" -> 65 [] c = "D" -> 68 [] c = "E" -> 69 [] c = "J" -> 74
      [] c = "S" -> 83 [] c = "X" -> 88
      [] c = "a" -> 97 [] c = "d" -> 100 [] c = "e" -> 101 [] c = "j" -> 106
      [] c = "s" -> 115 [] c = "x" -> 120 [] c = "y" -> 121
      [] c = "É" -> 201 [] c = "ß" -> 223 [] c = "é" -> 233
      [] OTHER -> 0

\* s <= t for Python strings: lexicographic by code point
RECURSIVE StrLeq(_, _)
StrLeq(s, t) ==
    IF s = <<>> THEN TRUE
    ELSE IF t = <<>> THEN FALSE
    ELSE IF Ord(Head(s)) # Ord(Head(t)) THEN Ord(Head(s)) < Ord(Head(t))
    ELSE StrLeq(Tail(s), Tail(t))

\* The orders a sort may leave the positions S in, when <<i, j>> \in before
\* says that position i must not come after position j: the sort is not asked
\* to be stable (kind defaults to 'quicksort'), so equal keys come out in any
\* order
RECURSIVE Orders(_, _)
Orders(S, before) ==
    IF S = {} THEN {<<>>}
    ELSE UNION {{<<i>> \o rest : rest \in Orders(S \ {i}, before)} :
                  i \in {k \in S : \A j \in S : <<k, j>> \in before}}

\* The positions S in the order they already have
RECURSIVE InOrder(_)
InOrder(S) ==
    IF S = {} THEN <<>>
    ELSE LET m == CHOOSE i \in S : \A j \in S : i <= j
         IN  <<m>> \o InOrder(S \ {m})

\* The rows of df in the order perm gives their positions
Reindex(df, perm) ==
    DataFrame(df.columns,
              [i \in 1..Len(perm) |-> df.index[perm[i]]],
              [i \in 1..Len(perm) |-> df.data[perm[i]]])

\* CitationOrders with ascending=True: the lowest count first
CitationOrdersAscending(df) ==
    LET known == {i \in 1..NRows(df) : ~IsNaN(df.data[i]["Citations"])}
        asc == {p \in known \X known :
                   df.data[p[1]]["Citations"][1] <= df.data[p[2]]["Citations"][1]}
    IN  {o \o InOrder((1..NRows(df)) \ known) : o \in Orders(known, asc)}

\* df.sort_values(by="Citations", ascending=False): known counts from the
\* highest down, then the rows with a missing count in the order they had
CitationOrders(df) ==
    LET known == {i \in 1..NRows(df) : ~IsNaN(df.data[i]["Citations"])}
        desc == {p \in known \X known :
                    df.data[p[1]]["Citations"][1] >= df.data[p[2]]["Citations"][1]}
    IN  {o \o InOrder((1..NRows(df)) \ known) : o \in Orders(known, desc)}

SortByCitations(df) == {Reindex(df, o) : o \in CitationOrders(df)}

\* The subset drop_duplicates compares
Key(row) == <<row["Authors"], row["Title"], row["Year"]>>

\* DropDuplicates with Year left out of the subset
DropDuplicatesNoYear(df) ==
    Reindex(df, InOrder({i \in 1..NRows(df) :
                           \A j \in 1..(i-1) :
                              <<df.data[j]["Authors"], df.data[j]["Title"]>>
                                # <<df.data[i]["Authors"], df.data[i]["Title"]>>}))

\* DropDuplicates as a group-by that keeps the first row of each key and gives
\* it the Database of the last row of the key
DropDuplicatesLastDatabase(df) ==
    LET firsts == InOrder({i \in 1..NRows(df) :
                             \A j \in 1..(i-1) : Key(df.data[j]) # Key(df.data[i])})
        last(i) == CHOOSE j \in 1..NRows(df) :
                      /\ Key(df.data[j]) = Key(df.data[i])
                      /\ \A k \in (j+1)..NRows(df) : Key(df.data[k]) # Key(df.data[i])
    IN  DataFrame(df.columns,
                  [n \in 1..Len(firsts) |-> df.index[firsts[n]]],
                  [n \in 1..Len(firsts) |->
                      [df.data[firsts[n]] EXCEPT
                          !["Database"] = df.data[last(firsts[n])]["Database"]]])

\* df.drop_duplicates(["Authors", "Title", "Year"], keep="first")
DropDuplicates(df) ==
    Reindex(df, InOrder({i \in 1..NRows(df) :
                           \A j \in 1..(i-1) : Key(df.data[j]) # Key(df.data[i])}))

\* df[["Title"] + [col for col in df.columns if col != "Title"]]
TitleFirst(df) ==
    DataFrame(<<"Title">> \o SelectSeq(df.columns, LAMBDA c : c # "Title"),
              df.index, df.data)

\* df.sort_values(by="Title")
TitleOrders(df) ==
    LET asc == {p \in (1..NRows(df)) \X (1..NRows(df)) :
                   StrLeq(df.data[p[1]]["Title"], df.data[p[2]]["Title"])}
    IN  Orders(1..NRows(df), asc)

SortByTitle(df) == {Reindex(df, o) : o \in TitleOrders(df)}

\* Lines 399-400: the caller's table with Authors and Title transliterated
Normalized(df) ==
    LET authors == AssignColumn(df, "Authors",
                     [i \in 1..NRows(df) |-> Unidecode(df.data[i]["Authors"])])
    IN  AssignColumn(authors, "Title",
                     [i \in 1..NRows(df) |-> Unidecode(df.data[i]["Title"])])

\* RemDuplicates with the two counts returned in each other's place
RemDuplicatesCountsSwapped(df) ==
    UNION {{[arg |-> Normalized(df), df_uniques |-> u,
             df_uniques_size |-> NRows(sorted), df_size |-> NRows(u)] :
               u \in SortByTitle(TitleFirst(DropDuplicates(sorted)))} :
             sorted \in SortByCitations(Normalized(df))}

\* rem_duplicates(df): what it may return, and the caller's table as it leaves it
RemDuplicates(df) ==
    UNION {{[arg |-> Normalized(df), df_uniques |-> u,
             df_uniques_size |-> NRows(u), df_size |-> NRows(sorted)] :
               u \in SortByTitle(TitleFirst(DropDuplicates(sorted)))} :
             sorted \in SortByCitations(Normalized(df))}

-----------------------------------------------------------------------------
(* 2 Read bibliometric files. *)

\* filename.endswith(suffix)
EndsWith(s, suffix) ==
    /\ Len(s) >= Len(suffix)
    /\ SubSeq(s, Len(s) - Len(suffix) + 1, Len(s)) = suffix

CSV_SUFFIX == <<".", "c", "s", "v">>

\* A file is its content's real format and the table that content encodes.
\* pd.read_csv parses delimited text and raises on anything else;
\* pd.read_excel parses a workbook and raises on anything else.
File(format, table) == [format |-> format, table |-> table]

ParserError == [type |-> "ParserError", names |-> {}]

WRONG_FORMAT == "Wrong file format"

Line(text, value) == [text |-> text, value |-> value]

\* ReadFile raising the ValueError its docstring announces
ReadFileRaising(filename, file) ==
    IF EndsWith(filename, CSV_SUFFIX)
    THEN IF file.format = "csv"
         THEN [df |-> file.table, error |-> NoError, printed |-> <<>>]
         ELSE [df |-> None, error |-> ParserError, printed |-> <<>>]
    ELSE IF file.format = "excel"
         THEN [df |-> file.table, error |-> NoError, printed |-> <<>>]
         ELSE [df |-> None, error |-> ValueError, printed |-> <<>>]

\* read_file(filename): the table or None it returns, or the exception that
\* leaves it, and what it prints
ReadFile(filename, file) ==
    IF EndsWith(filename, CSV_SUFFIX)
    THEN IF file.format = "csv"
         THEN [df |-> file.table, error |-> NoError, printed |-> <<>>]
         ELSE [df |-> None, error |-> ParserError, printed |-> <<>>]
    ELSE IF file.format = "excel"
         THEN [df |-> file.table, error |-> NoError, printed |-> <<>>]
         ELSE [df |-> None, error |-> NoError,
               printed |-> <<Line(WRONG_FORMAT, NaN)>>]

-----------------------------------------------------------------------------
(* 6 Main function: one action per statement of main. *)

\* Line 454: read_files(), three calls of read_file in turn; an exception
\* leaves main at once
ReadFilesStep ==
    /\ pc = "read_files"
    /\ LET w == ReadFile(FILE_PATH_WOS, disk.wos)
           s == ReadFile(FILE_PATH_SD, disk.scopus)
           p == ReadFile(FILE_PATH_PQ, disk.proquest)
       IN  IF w.error # NoError
           THEN /\ error' = w.error
                /\ stdout' = stdout \o w.printed
                /\ pc' = "aborted"
                /\ UNCHANGED << df_wos, df_scopus, df_proquest >>
           ELSE IF s.error # NoError
           THEN /\ error' = s.error
                /\ stdout' = stdout \o w.printed \o s.printed
                /\ pc' = "aborted"
                /\ UNCHANGED << df_wos, df_scopus, df_proquest >>
           ELSE IF p.error # NoError
           THEN /\ error' = p.error
                /\ stdout' = stdout \o w.printed \o s.printed \o p.printed
                /\ pc' = "aborted"
                /\ UNCHANGED << df_wos, df_scopus, df_proquest >>
           ELSE /\ df_wos' = w.df
                /\ df_scopus' = s.df
                /\ df_proquest' = p.df
                /\ stdout' = stdout \o w.printed \o s.printed \o p.printed
                /\ pc' = "adjust_wos"
                /\ UNCHANGED error
    /\ UNCHANGED << FILE_PATH_WOS, FILE_PATH_SD, FILE_PATH_PQ, disk,
                    df_wos_adj, df_scopus_adj, df_proquest_adj,
                    df_merged, df_uniques, df_uniques_size, df_size >>

\* Line 456
AdjustWosStep ==
    /\ pc = "adjust_wos"
    /\ LET r == AdjustWos(df_wos)
       IN  /\ df_wos' = r.raw
           /\ df_wos_adj' = r.df
           /\ error' = r.error
           /\ pc' = IF r.error = NoError THEN "adjust_scopus" ELSE "aborted"
    /\ UNCHANGED << FILE_PATH_WOS, FILE_PATH_SD, FILE_PATH_PQ, disk,
                    df_scopus, df_proquest, df_scopus_adj, df_proquest_adj,
                    df_merged, df_uniques, df_uniques_size, df_size, stdout >>

\* Line 457
AdjustScopusStep ==
    /\ pc = "adjust_scopus"
    /\ LET r == AdjustScopus(df_scopus)
       IN  /\ df_scopus' = r.raw
           /\ df_scopus_adj' = r.df
           /\ error' = r.error
           /\ pc' = IF r.error = NoError THEN "adjust_proquest" ELSE "aborted"
    /\ UNCHANGED << FILE_PATH_WOS, FILE_PATH_SD, FILE_PATH_PQ, disk,
                    df_wos, df_proquest, df_wos_adj, df_proquest_adj,
                    df_merged, df_uniques, df_uniques_size, df_size, stdout >>

\* Line 458
AdjustProquestStep ==
    /\ pc = "adjust_proquest"
    /\ LET r == AdjustProquest(df_proquest)
       IN  /\ df_proquest' = r.raw
           /\ df_proquest_adj' = r.df
           /\ error' = r.error
           /\ pc' = IF r.error = NoError THEN "merge_dfs" ELSE "aborted"
    /\ UNCHANGED << FILE_PATH_WOS, FILE_PATH_SD, FILE_PATH_PQ, disk,
                    df_wos, df_scopus, df_wos_adj, df_scopus_adj,
                    df_merged, df_uniques, df_uniques_size, df_size, stdout >>

\* Line 460
MergeDfsStep ==
    /\ pc = "merge_dfs"
    /\ df_merged' = MergeDfs(df_wos_adj, df_scopus_adj, df_proquest_adj)
    /\ pc' = "rem_duplicates"
    /\ UNCHANGED << FILE_PATH_WOS, FILE_PATH_SD, FILE_PATH_PQ, disk,
                    df_wos, df_scopus, df_proquest,
                    df_wos_adj, df_scopus_adj, df_proquest_adj,
                    df_uniques, df_uniques_size, df_size, stdout, error >>

\* Line 462: rem_duplicates rewrites Authors and Title of the table it is given
RemDuplicatesStep ==
    /\ pc = "rem_duplicates"
    /\ \E r \in RemDuplicates(df_merged) :
          /\ df_merged' = r.arg
          /\ df_uniques' = r.df_uniques
          /\ df_uniques_size' = r.df_uniques_size
          /\ df_size' = r.df_size
    /\ pc' = "report"
    /\ UNCHANGED << FILE_PATH_WOS, FILE_PATH_SD, FILE_PATH_PQ, disk,
                    df_wos, df_scopus, df_proquest,
                    df_wos_adj, df_scopus_adj, df_proquest_adj, stdout, error >>

\* WhereDatabase with the comparison negated
WhereDatabaseIsNot(df, label) ==
    Reindex(df, InOrder({i \in 1..NRows(df) : df.data[i]["Database"] # label}))

\* df[df["Database"] == label]
WhereDatabase(df, label) ==
    Reindex(df, InOrder({i \in 1..NRows(df) : df.data[i]["Database"] = label}))

\* Lines 464-477
ReportStep ==
    /\ pc = "report"
    /\ df_wos' = WhereDatabase(df_uniques, WOS_LABEL)
    /\ df_scopus' = WhereDatabase(df_uniques, SCOPUS_LABEL)
    /\ df_proquest' = WhereDatabase(df_uniques, PROQUEST_LABEL)
    /\ stdout' = stdout \o
          << Line("Number of studies before removal of duplicates studies",
                  Num(df_size)),
             Line("Number of studies removed", Num(df_size - df_uniques_size)),
             Line("Number of studies after automatic removal of duplicates studies (automatic)",
                  Num(df_uniques_size)),
             Line("Number of studied from Web of Science",
                  Num(NRows(WhereDatabase(df_uniques, WOS_LABEL)))),
             Line("Number of studied from Scopus",
                  Num(NRows(WhereDatabase(df_uniques, SCOPUS_LABEL)))),
             Line("Number of studied from ProQuest",
                  Num(NRows(WhereDatabase(df_uniques, PROQUEST_LABEL)))),
             Line("df_uniques.to_string()", NaN) >>
    /\ pc' = "done"
    /\ UNCHANGED << FILE_PATH_WOS, FILE_PATH_SD, FILE_PATH_PQ, disk,
                    df_wos_adj, df_scopus_adj, df_proquest_adj,
                    df_merged, df_uniques, df_uniques_size, df_size, error >>

\* rem_duplicates applied to the table it returned
RemDuplicatesAgain ==
    /\ pc = "report"
    /\ \E r \in RemDuplicates(df_uniques) :
          /\ df_merged' = r.arg
          /\ df_uniques' = r.df_uniques
          /\ df_uniques_size' = r.df_uniques_size
          /\ df_size' = r.df_size
    /\ pc' = "reapplied"
    /\ UNCHANGED << FILE_PATH_WOS, FILE_PATH_SD, FILE_PATH_PQ, disk,
                    df_wos, df_scopus, df_proquest,
                    df_wos_adj, df_scopus_adj, df_proquest_adj, stdout, error >>

-----------------------------------------------------------------------------
(* rem_duplicates on its own: every merged table of at most MaxRows rows. *)

NoFile == File("other", None)
NoDisk == [wos |-> NoFile, scopus |-> NoFile, proquest |-> NoFile]

UnifiedRow(authors, title, year, database, citations) ==
    [Authors |-> authors, Title |-> title, Year |-> year,
     Database |-> database, Citations |-> citations]

\* Text as the adapters leave it: lowercase, no space, accents still there
MergedAuthors == {<<"é">>, <<"e">>}
MergedTitles == {<<"é">>, <<"x">>}
CitationCounts == {NaN, Num(2), Num(5), Num(10)}

Cells(authors, title, year, citations) ==
    [Authors |-> authors, Title |-> title, Year |-> year, Citations |-> citations]

\* What a row holds besides its source: every text and count with one year,
\* and two rows of another or no year
MergedCells ==
    {Cells(a, t, Num(2020), c) :
        a \in MergedAuthors, t \in MergedTitles, c \in CitationCounts}
    \cup {Cells(<<"e">>, <<"x">>, NaN, Num(5)),
          Cells(<<"e">>, <<"x">>, Num(2021), Num(5))}

\* The source of the row at position i of the merged table: Web of Science
\* rows come first, then Scopus rows, then ProQuest rows
SourceAt(i) ==
    IF i = 1 THEN WOS_LABEL ELSE IF i = 2 THEN SCOPUS_LABEL ELSE PROQUEST_LABEL

MergedTables ==
    {DataFrame(UNIFIED_COLUMNS, [i \in 1..Len(cells) |-> i - 1],
               [i \in 1..Len(cells) |->
                   UnifiedRow(cells[i].Authors, cells[i].Title, cells[i].Year,
                              SourceAt(i), cells[i].Citations)]) :
        cells \in Str(MergedCells, MaxRows)}

InitDedup ==
    /\ pc = "rem_duplicates"
    /\ df_merged \in MergedTables
    /\ FILE_PATH_WOS = <<>> /\ FILE_PATH_SD = <<>> /\ FILE_PATH_PQ = <<>>
    /\ disk = NoDisk
    /\ df_wos = None /\ df_scopus = None /\ df_proquest = None
    /\ df_wos_adj = None /\ df_scopus_adj = None /\ df_proquest_adj = None
    /\ df_uniques = None
    /\ df_uniques_size = 0 /\ df_size = 0
    /\ stdout = <<>>
    /\ error = NoError

NextDedup == RemDuplicatesStep \/ RemDuplicatesAgain

SpecDedup == InitDedup /\ [][NextDedup]_vars

-----------------------------------------------------------------------------
(* Claims about rem_duplicates.  After the call df_merged is the table it   *)
(* was given, with Authors and Title transliterated in place, and           *)
(* df_uniques is the table it returned.                                     *)

Rows(df) == {df.data[i] : i \in 1..NRows(df)}
Keys(df) == {Key(r) : r \in Rows(df)}
Deduplicated == pc \in {"report", "reapplied", "done"}

\* C1: the output of rem_duplicates holds exactly one row per distinct
\* normalized (Authors, Title, Year) key of its input: no two output rows share
\* a key, every key of the input is a key of the output and no other is, so
\* rows whose keys differ are never collapsed into one.
C1_OneRowPerKey ==
    Deduplicated =>
        /\ \A i, j \in 1..NRows(df_uniques) :
              i # j => Key(df_uniques.data[i]) # Key(df_uniques.data[j])
        /\ Keys(df_uniques) = Keys(df_merged)
        /\ NRows(df_uniques) = Cardinality(Keys(df_merged))

\* Three rows went in, two of them with one key, and two rows came out
C1_Witness ==
    /\ pc = "report"
    /\ NRows(df_merged) = 3
    /\ Cardinality(Keys(df_merged)) = 2
    /\ NRows(df_uniques) = 2

\* c ranks no higher than d, a missing count below every known one
CitationsLeq(c, d) == IsNaN(c) \/ (~IsNaN(d) /\ c[1] <= d[1])

\* C2: the row kept for a key has the maximum Citations of the input rows of
\* that key, a missing count ranking below every known count.
C2_KeepsMostCited ==
    Deduplicated =>
        \A u \in Rows(df_uniques) : \A r \in Rows(df_merged) :
            Key(r) = Key(u) => CitationsLeq(r["Citations"], u["Citations"])

\* One row from each source, one key, citations 5, 10, 2: one row with 10
C2_Witness ==
    /\ pc = "report"
    /\ NRows(df_merged) = 3
    /\ Cardinality(Keys(df_merged)) = 1
    /\ df_merged.data[1]["Citations"] = Num(5)
    /\ df_merged.data[2]["Citations"] = Num(10)
    /\ df_merged.data[3]["Citations"] = Num(2)
    /\ NRows(df_uniques) = 1
    /\ df_uniques.data[1]["Citations"] = Num(10)

\* The index labels of the rows of df_merged that have key k and, among those,
\* the highest Citations
BestOfKey(k) ==
    {df_merged.index[i] : i \in {n \in 1..NRows(df_merged) :
        /\ Key(df_merged.data[n]) = k
        /\ \A m \in 1..NRows(df_merged) :
              Key(df_merged.data[m]) = k =>
                 CitationsLeq(df_merged.data[m]["Citations"],
                              df_merged.data[n]["Citations"])}}

\* C3: the sort by Citations is stable: of the rows of one key that tie for the
\* highest Citations (or all miss it), the row kept is the first in the merged
\* table's order.
C3_FirstSeenWins ==
    pc = "report" =>
        \A i \in 1..NRows(df_uniques) :
            \A l \in BestOfKey(Key(df_uniques.data[i])) : df_uniques.index[i] <= l

\* C4: rem_duplicates applied to the table it returned returns the same table
\* (rows, row order, column order) and a deduplicated count equal to its input
\* count.
C4_Idempotent ==
    [][(pc = "report" /\ pc' = "reapplied") =>
          /\ df_uniques' = df_uniques
          /\ df_uniques_size' = df_size']_vars

\* The row as rem_duplicates leaves it when it keeps it: Authors and Title
\* transliterated, the other fields as they were
Folded(row) ==
    [row EXCEPT !["Authors"] = Unidecode(row["Authors"]),
                !["Title"] = Unidecode(row["Title"])]

\* C12: every row of the table rem_duplicates returns is one row of the merged
\* table it was given, taken whole: its Year, Database and Citations are those
\* of that row and its Authors and Title are that row's after diacritic
\* folding, so a duplicate cluster carries the Database of the copy kept; the
\* index label of the returned row names the row it was taken from.
C12_RowsTakenWhole ==
    [][pc = "rem_duplicates" =>
          \A i \in 1..NRows(df_uniques') :
              \E j \in 1..NRows(df_merged) :
                  /\ df_merged.index[j] = df_uniques'.index[i]
                  /\ df_uniques'.data[i] = Folded(df_merged.data[j])]_vars

\* Three copies of one study, one from each source, with the counts 2, 10
\* and 5: the one row returned is the Scopus copy, with its label 1, its
\* Database and its count
C12_Witness ==
    /\ pc = "report"
    /\ NRows(df_merged) = 3
    /\ Cardinality(Keys(df_merged)) = 1
    /\ df_merged.data[1]["Citations"] = Num(2)
    /\ df_merged.data[3]["Citations"] = Num(5)
    /\ NRows(df_uniques) = 1
    /\ df_uniques.index[1] = 1
    /\ df_uniques.data[1] = df_merged.data[2]
    /\ df_uniques.data[1]["Database"] = SCOPUS_LABEL
    /\ df_uniques.data[1]["Citations"] = Num(10)

-----------------------------------------------------------------------------
(* A run of main: the three files, from reading to the report. *)

Table(columns, rows) ==
    DataFrame(columns, [i \in 1..Len(rows) |-> i - 1], rows)

\* A row of an export: values[i] in the column columns[i]
RawRow(columns, values) ==
    [c \in Range(columns) |->
        values[CHOOSE i \in 1..Len(columns) : columns[i] = c]]

\* The table without one of its columns
WithoutColumn(df, col) ==
    SelectColumns(df, SelectSeq(df.columns, LAMBDA c : c # col))

\* The columns of the exports: the ones the adapters read, and one they drop
WOS_EXPORT == <<"Author Full Names", "Article Title", "Publication Year",
                "Times Cited, WoS Core", "DOI">>
SCOPUS_EXPORT == <<"Author full names", "Title", "Year", "Source", "Cited by", "DOI">>
PROQUEST_EXPORT == <<"Author", "Title", "PubDate", "Source", "Cited by", "DOI">>

NoDoi == <<>>
RawTitles == {<<"X">>, <<"É">>}
DATE_2020 == <<"2", "0", "2", "0", "-", "0", "5", "-", "0", "1">>
BAD_DATE == <<"n", "/", "a">>

WosRow(authors, title) ==
    RawRow(WOS_EXPORT, <<authors, title, Num(2020), Num(5), NoDoi>>)
ScopusRow(authors, title, source) ==
    RawRow(SCOPUS_EXPORT, <<authors, title, Num(2020), source, Num(10), NoDoi>>)
ProquestRow(authors, title, date) ==
    RawRow(PROQUEST_EXPORT, <<authors, title, date, PROQUEST_LABEL, Num(2), NoDoi>>)

WosRows == {WosRow(<<"S", " ", "J">>, t) : t \in RawTitles}

ScopusRows ==
    {ScopusRow(<<"S", " ", "J", "(", "D", ")">>, t, src) :
        t \in RawTitles, src \in {SCOPUS_LABEL, "Elsevier"}}

ProquestRows ==
    {ProquestRow(<<"S", " ", "J">>, t, d) : t \in RawTitles, d \in {DATE_2020, NaN}}

CSV_PATH == <<"a", ".", "c", "s", "v">>
XLSX_PATH == <<"a", ".", "x", "l", "s", "x">>

\* The path and file of one source: a delimited-text file of any rows; a
\* workbook; a file that is neither; a workbook named .csv; a file without
\* the citation column
Sources(columns, rows, cited) ==
    LET one == Table(columns, <<CHOOSE r \in rows : TRUE>>)
    IN  {[path |-> CSV_PATH, file |-> File("csv", Table(columns, rs))] :
            rs \in Str(rows, MaxSourceRows)}
        \cup {[path |-> XLSX_PATH, file |-> File("excel", one)],
              [path |-> XLSX_PATH, file |-> File("other", None)],
              [path |-> <<>>, file |-> File("other", None)],
              [path |-> CSV_PATH, file |-> File("excel", one)],
              [path |-> CSV_PATH, file |-> File("csv", WithoutColumn(one, cited))]}

WosSources == Sources(WOS_EXPORT, WosRows, "Times Cited, WoS Core")
ScopusSources == Sources(SCOPUS_EXPORT, ScopusRows, "Cited by")
ProquestSources ==
    Sources(PROQUEST_EXPORT, ProquestRows, "Cited by")
    \cup {[path |-> CSV_PATH,
           file |-> File("csv", Table(PROQUEST_EXPORT,
                       <<ProquestRow(<<"S", " ", "J">>, <<"X">>, BAD_DATE)>>))]}

Init ==
    /\ pc = "read_files"
    /\ \E w \in WosSources, s \in ScopusSources, p \in ProquestSources :
          /\ FILE_PATH_WOS = w.path
          /\ FILE_PATH_SD = s.path
          /\ FILE_PATH_PQ = p.path
          /\ disk = [wos |-> w.file, scopus |-> s.file, proquest |-> p.file]
    /\ df_wos = None /\ df_scopus = None /\ df_proquest = None
    /\ df_wos_adj = None /\ df_scopus_adj = None /\ df_proquest_adj = None
    /\ df_merged = None /\ df_uniques = None
    /\ df_uniques_size = 0 /\ df_size = 0
    /\ stdout = <<>>
    /\ error = NoError

Next ==
    \/ ReadFilesStep
    \/ AdjustWosStep
    \/ AdjustScopusStep
    \/ AdjustProquestStep
    \/ MergeDfsStep
    \/ RemDuplicatesStep
    \/ ReportStep

Spec == Init /\ [][Next]_vars

-----------------------------------------------------------------------------
(* Claims about the report of main. *)

\* The number main printed after the given text
Reported(text) ==
    (CHOOSE l \in Range(stdout) : l.text = text).value[1]

Before == Reported("Number of studies before removal of duplicates studies")
Removed == Reported("Number of studies removed")
After ==
    Reported("Number of studies after automatic removal of duplicates studies (automatic)")
FromWos == Reported("Number of studied from Web of Science")
FromScopus == Reported("Number of studied from Scopus")
FromProquest == Reported("Number of studied from ProQuest")

\* C5: rem_duplicates returns the row count of its input as third value and the
\* row count of the deduplicated table as second value; main reports
\* before = input count, after = deduplicated count, removed = before - after,
\* so after + removed = before and 0 <= removed <= before.
C5_CountsAddUp ==
    /\ pc \in {"report", "done"} =>
          /\ df_size = NRows(df_merged)
          /\ df_uniques_size = NRows(df_uniques)
    /\ pc = "done" =>
          /\ Before = NRows(df_merged)
          /\ After = NRows(df_uniques)
          /\ Removed = Before - After
          /\ After + Removed = Before
          /\ 0 <= Removed /\ Removed <= Before

\* A run that merged three rows and reported one of them removed
C5_Witness ==
    /\ pc = "done"
    /\ NRows(df_merged) = 3
    /\ Before = 3 /\ Removed = 1 /\ After = 2

KNOWN_LABELS == {WOS_LABEL, SCOPUS_LABEL, PROQUEST_LABEL}

\* C6: the three per-source counts of main sum to the deduplicated row count
\* when every Database value of the deduplicated table is one of the three
\* labels; adjust_wos injects the Web of Science label, the other two adapters
\* copy Database from the raw Source column.
C6_SourceCountsSum ==
    /\ (pc = "done" /\ \A r \in Rows(df_uniques) : r["Database"] \in KNOWN_LABELS) =>
          /\ FromWos + FromScopus + FromProquest = df_uniques_size
          /\ NRows(df_wos) + NRows(df_scopus) + NRows(df_proquest) = NRows(df_uniques)
    /\ pc \in {"adjust_scopus", "adjust_proquest", "merge_dfs",
               "rem_duplicates", "report"} =>
          \A i \in 1..NRows(df_wos_adj) :
              df_wos_adj.data[i]["Database"] = WOS_LABEL
    /\ pc \in {"adjust_proquest", "merge_dfs", "rem_duplicates", "report"} =>
          \A i \in 1..NRows(df_scopus_adj) :
              df_scopus_adj.data[i]["Database"] = df_scopus.data[i]["Source"]
    /\ pc \in {"merge_dfs", "rem_duplicates", "report"} =>
          \A i \in 1..NRows(df_proquest_adj) :
              df_proquest_adj.data[i]["Database"] = df_proquest.data[i]["Source"]

\* A run whose deduplicated table holds one row of each source
C6_Witness ==
    /\ pc = "done"
    /\ df_uniques_size = 3
    /\ FromWos = 1 /\ FromScopus = 1 /\ FromProquest = 1

-----------------------------------------------------------------------------
(* Claims about the order of the steps of main. *)

\* What read_file gives for each of the three paths of this run
Loads ==
    <<ReadFile(FILE_PATH_WOS, disk.wos), ReadFile(FILE_PATH_SD, disk.scopus),
      ReadFile(FILE_PATH_PQ, disk.proquest)>>

\* A source fails to load: read_file raises, or yields no table
FailedToLoad == \E i \in 1..3 : Loads[i].error # NoError \/ Loads[i].df = None

\* The table an adapter returned: the five unified columns
Adapted(df) == df # None /\ Range(df.columns) = Range(UNIFIED_COLUMNS)

\* main printed a line of its summary
SummaryPrinted == \E i \in 1..Len(stdout) : stdout[i].text # WRONG_FORMAT

\* The statement of main that follows a statement that returned
FollowingStep(p) ==
    CASE p = "read_files" -> "adjust_wos"
      [] p = "adjust_wos" -> "adjust_scopus"
      [] p = "adjust_scopus" -> "adjust_proquest"
      [] p = "adjust_proquest" -> "merge_dfs"
      [] p = "merge_dfs" -> "rem_duplicates"
      [] p = "rem_duplicates" -> "report"
      [] p = "report" -> "done"
      [] OTHER -> "none"

\* Merging, deduplicating and reporting happen only after all three sources
\* loaded and adapted, and an aborted run has done none of them
AllThreeOrNothing ==
    /\ pc \in {"merge_dfs", "rem_duplicates", "report", "done"} =>
          /\ ~FailedToLoad
          /\ error = NoError
          /\ Adapted(df_wos_adj) /\ Adapted(df_scopus_adj) /\ Adapted(df_proquest_adj)
    /\ df_merged # None => pc \in {"rem_duplicates", "report", "done"}
    /\ df_uniques # None => pc \in {"report", "done"}
    /\ SummaryPrinted => pc = "done"
    /\ FailedToLoad =>
          /\ pc \in {"read_files", "adjust_wos", "adjust_scopus",
                     "adjust_proquest", "aborted"}
          /\ df_merged = None /\ df_uniques = None /\ ~SummaryPrinted
    /\ pc = "aborted" =>
          /\ error # NoError
          /\ df_merged = None /\ df_uniques = None /\ ~SummaryPrinted

\* A step of main goes to the following statement, or leaves main from the
\* loading or one of the adapters with an exception; an adapter that fails
\* leaves main
StepInOrder ==
    /\ \/ pc' = FollowingStep(pc) /\ error' = NoError
       \/ /\ pc \in {"read_files", "adjust_wos", "adjust_scopus", "adjust_proquest"}
          /\ pc' = "aborted"
          /\ error' # NoError
    /\ (pc = "read_files" /\ \E i \in 1..3 : Loads[i].error # NoError) => pc' = "aborted"
    /\ (pc = "adjust_wos" /\ (df_wos = None \/ AdjustWos(df_wos).error # NoError))
          => pc' = "aborted"
    /\ (pc = "adjust_scopus" /\ (df_scopus = None \/ AdjustScopus(df_scopus).error # NoError))
          => pc' = "aborted"
    /\ (pc = "adjust_proquest"
          /\ (df_proquest = None \/ AdjustProquest(df_proquest).error # NoError))
          => pc' = "aborted"

\* C11: in every run of main the steps occur in the order load (all three
\* sources), adapt, merge, deduplicate, report; when a source fails to load
\* (read_file yields no table) or to adapt, the run aborts before merge_dfs
\* and rem_duplicates and prints no summary, so deduplication never runs on
\* fewer than three adapted sources.
C11_AllOrAbort == []AllThreeOrNothing /\ [][StepInOrder]_vars

\* The Web of Science source loaded and adapted, the Scopus file is neither
\* delimited text nor a workbook: read_file reported it and yielded no table,
\* and the run ended in adjust_scopus with nothing merged or printed after
C11_Witness ==
    /\ pc = "aborted"
    /\ Loads[2].df = None /\ Loads[2].error = NoError
    /\ Adapted(df_wos_adj)
    /\ df_scopus = None /\ df_scopus_adj = None
    /\ error = TypeError
    /\ WRONG_FORMAT \in {stdout[i].text : i \in 1..Len(stdout)}
    /\ df_merged = None /\ df_uniques = None

-----------------------------------------------------------------------------
(* The adapters on their own: the three tables are loaded, one of them is   *)
(* any one-row table of its export (every raw author string of at most      *)
(* MaxLen characters, used as the title too) or lacks one column.           *)

AuthorChars == {" ", "\n", "a", "A", "(", ")"}
RawStrings == Str(AuthorChars, MaxLen)

WosGood == Table(WOS_EXPORT, <<WosRow(<<"S", " ", "J">>, <<"X">>)>>)
ScopusGood ==
    Table(SCOPUS_EXPORT, <<ScopusRow(<<"S", " ", "J", "(", "D", ")">>, <<"X">>, SCOPUS_LABEL)>>)
ProquestGood == Table(PROQUEST_EXPORT, <<ProquestRow(<<"S", " ", "J">>, <<"X">>, DATE_2020)>>)

WosInputs ==
    {Table(WOS_EXPORT, <<WosRow(a, a)>>) : a \in RawStrings}
    \cup {WithoutColumn(WosGood, c) : c \in Range(WOS_EXPORT)}
ScopusInputs ==
    {Table(SCOPUS_EXPORT, <<ScopusRow(a, a, SCOPUS_LABEL)>>) : a \in RawStrings}
    \cup {WithoutColumn(ScopusGood, c) : c \in Range(SCOPUS_EXPORT)}
ProquestInputs ==
    {Table(PROQUEST_EXPORT, <<ProquestRow(a, a, DATE_2020)>>) : a \in RawStrings}
    \cup {WithoutColumn(ProquestGood, c) : c \in Range(PROQUEST_EXPORT)}

InitAdapt ==
    /\ pc = "adjust_wos"
    /\ \/ df_wos \in WosInputs /\ df_scopus = ScopusGood /\ df_proquest = ProquestGood
       \/ df_wos = WosGood /\ df_scopus \in ScopusInputs /\ df_proquest = ProquestGood
       \/ df_wos = WosGood /\ df_scopus = ScopusGood /\ df_proquest \in ProquestInputs
    /\ FILE_PATH_WOS = CSV_PATH /\ FILE_PATH_SD = CSV_PATH /\ FILE_PATH_PQ = CSV_PATH
    /\ disk = [wos |-> File("csv", df_wos), scopus |-> File("csv", df_scopus),
               proquest |-> File("csv", df_proquest)]
    /\ df_wos_adj = None /\ df_scopus_adj = None /\ df_proquest_adj = None
    /\ df_merged = None /\ df_uniques = None
    /\ df_uniques_size = 0 /\ df_size = 0
    /\ stdout = <<>>
    /\ error = NoError

NextAdapt == AdjustWosStep \/ AdjustScopusStep \/ AdjustProquestStep

SpecAdapt == InitAdapt /\ [][NextAdapt]_vars

-----------------------------------------------------------------------------
(* Claims about the adapters. *)

\* The adapter of the source has returned, and its raw table is still bound
WosAdjusted ==
    pc \in {"adjust_scopus", "adjust_proquest", "merge_dfs", "rem_duplicates", "report"}
ScopusAdjusted == pc \in {"adjust_proquest", "merge_dfs", "rem_duplicates", "report"}
ProquestAdjusted == pc \in {"merge_dfs", "rem_duplicates", "report"}

\* Every prefix of s closes no more parentheses than it opened, and s closes all
Opened(s, n) == Cardinality({i \in 1..n : s[i] = "("})
Closed(s, n) == Cardinality({i \in 1..n : s[i] = ")"})
Balanced(s) ==
    /\ \A n \in 1..Len(s) : Closed(s, n) <= Opened(s, n)
    /\ Closed(s, Len(s)) = Opened(s, Len(s))

\* C7: for every raw author string, adjust_scopus leaves an Authors value from
\* which every parenthesized substring has been stripped (several, empty,
\* unbalanced or nested ones too), without leading or trailing whitespace,
\* space-free and lowercase: no "(" ... ")" is left in it, and nothing of the
\* parentheses of a raw string whose parentheses are balanced.
C7_ParenthesesStripped ==
    ScopusAdjusted =>
        \A i \in 1..NRows(df_scopus_adj) :
            LET raw == df_scopus.data[i]["Author full names"]
                authors == df_scopus_adj.data[i]["Authors"]
            IN  /\ ~\E m, n \in 1..Len(authors) :
                       m < n /\ authors[m] = "(" /\ authors[n] = ")"
                /\ Balanced(raw) => Range(authors) \cap {"(", ")"} = {}
                /\ authors # <<>> =>
                      authors[1] \notin Whitespace /\ authors[Len(authors)] \notin Whitespace
                /\ Range(authors) \cap ({" "} \cup Uppercase) = {}

\* For a table the adapter returned: no Authors value has a character of
\* the set, and every Title is the raw title lowercased
AuthorsWithout(adj, chars) ==
    \A i \in 1..NRows(adj) : Range(adj.data[i]["Authors"]) \cap chars = {}
TitlesLowercased(adj, raw, col) ==
    \A i \in 1..NRows(adj) : adj.data[i]["Title"] = Lower(raw.data[i][col])

\* C8 as stated: after any of the three adapters no Authors value has a
\* whitespace character of any kind or an uppercase letter, and every Title is
\* the raw title lowercased with its whitespace as it was.
C8_NoWhitespaceAtAll ==
    /\ WosAdjusted =>
          /\ AuthorsWithout(df_wos_adj, Whitespace \cup Uppercase)
          /\ TitlesLowercased(df_wos_adj, df_wos, "Article Title")
    /\ ScopusAdjusted =>
          /\ AuthorsWithout(df_scopus_adj, Whitespace \cup Uppercase)
          /\ TitlesLowercased(df_scopus_adj, df_scopus, "Title")
    /\ ProquestAdjusted =>
          /\ AuthorsWithout(df_proquest_adj, Whitespace \cup Uppercase)
          /\ TitlesLowercased(df_proquest_adj, df_proquest, "Title")

\* C8 as amended: after any of the three adapters no Authors value has a space
\* character (U+0020) or an uppercase letter, and every Title is the raw title
\* lowercased with its whitespace as it was.
C8_NoSpaceNoUppercase ==
    /\ WosAdjusted =>
          /\ AuthorsWithout(df_wos_adj, {" "} \cup Uppercase)
          /\ TitlesLowercased(df_wos_adj, df_wos, "Article Title")
    /\ ScopusAdjusted =>
          /\ AuthorsWithout(df_scopus_adj, {" "} \cup Uppercase)
          /\ TitlesLowercased(df_scopus_adj, df_scopus, "Title")
    /\ ProquestAdjusted =>
          /\ AuthorsWithout(df_proquest_adj, {" "} \cup Uppercase)
          /\ TitlesLowercased(df_proquest_adj, df_proquest, "Title")

\* adjust_wos was given "A", space, newline, "a" as authors and as title
C8_Witness ==
    /\ pc = "adjust_scopus"
    /\ df_wos.data[1]["Author Full Names"] = <<"A", " ", "\n", "a">>
    /\ df_wos_adj.data[1]["Authors"] = <<"a", "\n", "a">>
    /\ df_wos_adj.data[1]["Title"] = <<"a", " ", "\n", "a">>

\* The columns the adapter reads from the raw table that the table lacks
Lacking(df, cols) ==
    IF df = None THEN {} ELSE MissingColumns(df, cols) \ {"Database"}

\* C9 as stated: an adapter given a raw table that lacks one of its required
\* columns fails with a SchemaMismatch error naming the column and returns no
\* table.
C9_SchemaMismatch ==
    [][/\ (pc = "adjust_wos" /\ Lacking(df_wos, WOS_COLUMNS) # {}) =>
            /\ pc' = "aborted" /\ df_wos_adj' = None
            /\ error'.type = "SchemaMismatch"
            /\ error'.names = Lacking(df_wos, WOS_COLUMNS)
       /\ (pc = "adjust_scopus" /\ Lacking(df_scopus, SCOPUS_COLUMNS) # {}) =>
            /\ pc' = "aborted" /\ df_scopus_adj' = None
            /\ error'.type = "SchemaMismatch"
            /\ error'.names = Lacking(df_scopus, SCOPUS_COLUMNS)
       /\ (pc = "adjust_proquest" /\ Lacking(df_proquest, PROQUEST_COLUMNS) # {}) =>
            /\ pc' = "aborted" /\ df_proquest_adj' = None
            /\ error'.type = "SchemaMismatch"
            /\ error'.names = Lacking(df_proquest, PROQUEST_COLUMNS)]_vars

\* C9 as amended: an adapter given a raw table that lacks one of its required
\* columns fails with the KeyError of the column selection, which names the
\* column, and returns no table (none with the column filled with nulls).
C9_KeyErrorNamesColumn ==
    [][/\ (pc = "adjust_wos" /\ Lacking(df_wos, WOS_COLUMNS) # {}) =>
            /\ pc' = "aborted" /\ df_wos_adj' = None
            /\ error'.type = "KeyError"
            /\ error'.names = Lacking(df_wos, WOS_COLUMNS)
       /\ (pc = "adjust_scopus" /\ Lacking(df_scopus, SCOPUS_COLUMNS) # {}) =>
            /\ pc' = "aborted" /\ df_scopus_adj' = None
            /\ error'.type = "KeyError"
            /\ error'.names = Lacking(df_scopus, SCOPUS_COLUMNS)
       /\ (pc = "adjust_proquest" /\ Lacking(df_proquest, PROQUEST_COLUMNS) # {}) =>
            /\ pc' = "aborted" /\ df_proquest_adj' = None
            /\ error'.type = "KeyError"
            /\ error'.names = Lacking(df_proquest, PROQUEST_COLUMNS)]_vars

\* adjust_scopus was given a table without "Cited by" and raised
C9_Witness ==
    /\ pc = "aborted"
    /\ df_wos_adj # None
    /\ "Cited by" \notin Range(df_scopus.columns)
    /\ error = KeyError({"Cited by"})
    /\ df_scopus_adj = None

-----------------------------------------------------------------------------
(* read_file on its own: any path of at most MaxPathLen characters for the  *)
(* Web of Science file, holding delimited text, a workbook or neither.      *)

PathChars == {".", "c", "s", "v", "C"}

InitRead ==
    /\ pc = "read_files"
    /\ FILE_PATH_WOS \in Str(PathChars, MaxPathLen)
    /\ FILE_PATH_SD = CSV_PATH /\ FILE_PATH_PQ = XLSX_PATH
    /\ \E f \in {File("csv", WosGood), File("excel", WosGood), File("other", None)} :
          disk = [wos |-> f, scopus |-> File("csv", ScopusGood),
                  proquest |-> File("excel", ProquestGood)]
    /\ df_wos = None /\ df_scopus = None /\ df_proquest = None
    /\ df_wos_adj = None /\ df_scopus_adj = None /\ df_proquest_adj = None
    /\ df_merged = None /\ df_uniques = None
    /\ df_uniques_size = 0 /\ df_size = 0
    /\ stdout = <<>>
    /\ error = NoError

NextRead == ReadFilesStep

SpecRead == InitRead /\ [][NextRead]_vars

\* The path of the source ends in ".csv"; what the file of the source holds
IsCsvPath(path) == EndsWith(path, CSV_SUFFIX)
PATHS == [wos |-> FILE_PATH_WOS, scopus |-> FILE_PATH_SD, proquest |-> FILE_PATH_PQ]
LOADED == [wos |-> df_wos, scopus |-> df_scopus, proquest |-> df_proquest]
SOURCES == {"wos", "scopus", "proquest"}

====
